---- MODULE Spec2Model ----
(***************************************************************************)
(* Model of commit-as (src/commit_as.py): the User record and its raw      *)
(* literal parser, the KnownUserDB store over the sqlite "users" table,    *)
(* the git invokers commit_as / set_user, and main's dispatch.             *)
(*                                                                         *)
(* A Python str is a sequence of symbols; a literal piece of an f-string   *)
(* is one symbol (Lit).  A row of the users table is the 4-tuple           *)
(* <<id, key, name, email_address>> that the SELECT statements return.     *)
(***************************************************************************)
EXTENDS Integers, Sequences, FiniteSets, TLC

\* ------------------------------------------------------------------ bounds
\* Largest rowid the model lets the users table assign.
MaxId == 3
\* Longest raw literal handed to the parser in SpecParse.
MaxLen == 5
\* Longest list of pass-through arguments after the subcommand.
MaxExtra == 2

\* ------------------------------------------------------------- input sets
Alphabet == {"a", "b", ";"}
Keys == {<<"a">>, <<"b">>}
\* The (name, email_address) pairs the operator registers.
People == { <<<<"A", "a">>, <<"a", "@", "x">>>>, <<<<"B">>, <<"b", "@", "x">>>> }
\* The raw literals the operator may type with --raw-user: 1, 2, 3 and 4
\* fields.
RawLiterals ==
    { <<"a">>,
      <<"a", ";", "a", "@", "x">>,
      <<"b", ";", "A", "a", ";", "b", "@", "x">>,
      <<"a", ";", "b", ";", "a", ";", "b">> }
\* The key argument of commit / set with the --raw-user flag that goes with it.
Targets ==
    {<<k, FALSE>> : k \in Keys} \cup {<<t, TRUE>> : t \in RawLiterals}
ExtraArgs == {<<"-m">>, <<"x">>}

RECURSIVE SeqsUpTo(_, _)
SeqsUpTo(S, n) ==
    IF n = 0 THEN {<<>>}
    ELSE LET shorter == SeqsUpTo(S, n - 1)
         IN  shorter \cup {Append(s, x) : s \in {t \in shorter : Len(t) = n - 1}, x \in S}

Lit(s) == <<s>>

None == [none |-> TRUE]

\* --------------------------------------------------------------- class User
User(id_, key, name, email_address) ==
    [id_ |-> id_, key |-> key, name |-> name, email_address |-> email_address]

\* str.split(";")
RECURSIVE Split(_)
Split(text) ==
    IF text = <<>> THEN << <<>> >>
    ELSE LET rest == Split(Tail(text))
         IN  IF Head(text) = ";"
             THEN << <<>> >> \o rest
             ELSE << <<Head(text)>> \o Head(rest) >> \o Tail(rest)

ValueError(tokens) ==
    [exc |-> "ValueError", count |-> Len(tokens), tokens |-> tokens]

IsError(x) == "exc" \in DOMAIN x

from_semicolon_separated_str_swapped(text) ==
    LET tokens == Split(text)
    IN  IF Len(tokens) = 2
        THEN User(0, tokens[1], tokens[1], tokens[2])
        ELSE IF Len(tokens) = 3
        THEN User(0, tokens[2], tokens[1], tokens[3])
        ELSE ValueError(tokens)

from_semicolon_separated_str_lenient(text) ==
    LET tokens == Split(text)
    IN  IF Len(tokens) = 3
        THEN User(0, tokens[1], tokens[2], tokens[3])
        ELSE User(0, tokens[1], tokens[1], tokens[Len(tokens)])

from_semicolon_separated_str(text) ==
    LET tokens == Split(text)
    IN  IF Len(tokens) = 2
        THEN User(0, tokens[1], tokens[1], tokens[2])
        ELSE IF Len(tokens) = 3
        THEN User(0, tokens[1], tokens[2], tokens[3])
        ELSE ValueError(tokens)

from_db_record(record) == User(record[1], record[2], record[3], record[4])

\* --------------------------------------------------------- the users table
SetMax(S) == CHOOSE x \in S : \A y \in S : y <= x
SetMin(S) == CHOOSE x \in S : \A y \in S : x <= y

\* The rows of a result set in the order sqlite steps through them: by rowid,
\* for the table scan and for the scan of the index user_key(key, rowid) alike.
RECURSIVE ByRowid(_)
ByRowid(rows) ==
    IF rows = {} THEN <<>>
    ELSE LET first == CHOOSE r \in rows : r[1] = SetMin({q[1] : q \in rows})
         IN  <<first>> \o ByRowid(rows \ {first})

\* The id of "id INTEGER PRIMARY KEY" when INSERT names no id: one more than
\* the largest rowid in use.
NextRowIdLowestFree(t) == SetMin((1..(Cardinality(t) + 1)) \ {r[1] : r \in t})

NextRowId(t) == IF t = {} THEN 1 ELSE SetMax({r[1] : r \in t}) + 1

\* cursor.fetchone(): the first row of the result, or None
fetchone(rows) == IF rows = <<>> THEN None ELSE rows[1]

add_user(t, key, name, email_address) ==
    t \cup {<<NextRowId(t), key, name, email_address>>}

delete(t, id_) == {r \in t : r[1] # id_}

delete_by_key_one(t, key) ==
    LET hit == {r \in t : r[2] = key}
    IN  IF hit = {} THEN t ELSE t \ {ByRowid(hit)[1]}

delete_by_key(t, key) == {r \in t : r[2] # key}

get(t, id_) ==
    LET user_row == fetchone(ByRowid({r \in t : r[1] = id_}))
    IN  IF user_row = None THEN None ELSE from_db_record(user_row)

get_user_by_key_last(t, key) ==
    LET rows == ByRowid({r \in t : r[2] = key})
    IN  IF rows = <<>> THEN None ELSE from_db_record(rows[Len(rows)])

get_user_by_key(t, key) ==
    LET user_row == fetchone(ByRowid({r \in t : r[2] = key}))
    IN  IF user_row = None THEN None ELSE from_db_record(user_row)

get_all_users(t) ==
    LET records == ByRowid(t)
    IN  [i \in 1..Len(records) |-> from_db_record(records[i])]

connect(c) == IF c = "None" THEN "open" ELSE c

disconnect(c) == IF c # "None" THEN "closed" ELSE c


\* ------------------------------------------------------------------ state
VARIABLES
    table,        \* the rows of the users table in the database file
    inserted,     \* history: the live records, oldest insertion first
    con,          \* KnownUserDB.con: "None", "open" or "closed"
    schema,       \* whether the users table and its index exist
    call,         \* the last KnownUserDB method called directly (SpecStore)
    ret,          \* what that call returned
    text,         \* the raw literal given to the parser (SpecParse)
    parsed,       \* what from_semicolon_separated_str made of it
    pc,           \* where main is
    args,         \* the parsed command line of the invocation
    user,         \* main's resolved user
    storeOps,     \* the KnownUserDB methods this invocation has called
    cmds,         \* the external commands this invocation has run
    out,          \* what this invocation has printed
    exit_status   \* the exit status of the process, -1 while it runs

vars == <<table, inserted, con, schema, call, ret, text, parsed,
          pc, args, user, storeOps, cmds, out, exit_status>>

storeVars == <<call, ret>>
parseVars == <<text, parsed>>
mainVars == <<pc, args, user, storeOps, cmds, out, exit_status>>

NoArgs ==
    [subcommand |-> "None", key |-> <<>>, name |-> <<>>, email_address |-> <<>>,
     raw_user |-> FALSE, unknown_args |-> <<>>]

Init ==
    /\ table = {}
    /\ inserted = <<>>
    /\ con = "None"
    /\ schema = FALSE
    /\ call = [op |-> "none"]
    /\ ret = None
    /\ text = <<>>
    /\ parsed = None
    /\ pc = "idle"
    /\ args = NoArgs
    /\ user = None
    /\ storeOps = <<>>
    /\ cmds = <<>>
    /\ out = <<>>
    /\ exit_status = -1

\* The history of the live records after each mutation of the table.
InsertedAfterAdd(t2) ==
    LET new == CHOOSE r \in t2 \ table : TRUE
    IN  Append(inserted, from_db_record(new))
InsertedAfterDelete(id_) == SelectSeq(inserted, LAMBDA u : u.id_ # id_)
InsertedAfterDeleteByKey(key) == SelectSeq(inserted, LAMBDA u : u.key # key)

\* ------------------------------------------- KnownUserDB, called directly
Usable == con = "open" /\ schema

DbNew ==
    /\ con' = "None"
    /\ call' = [op |-> "__init__"]
    /\ ret' = None
    /\ UNCHANGED <<table, inserted, schema, parseVars, mainVars>>

DbConnect ==
    /\ con' = connect(con)
    /\ call' = [op |-> "connect"]
    /\ ret' = None
    /\ UNCHANGED <<table, inserted, schema, parseVars, mainVars>>

DbDisconnect ==
    /\ con' = disconnect(con)
    /\ call' = [op |-> "disconnect"]
    /\ ret' = None
    /\ UNCHANGED <<table, inserted, schema, parseVars, mainVars>>

DbCreateTables ==
    /\ con = "open"
    /\ schema' = TRUE
    /\ call' = [op |-> "create_tables"]
    /\ ret' = None
    /\ UNCHANGED <<table, inserted, con, parseVars, mainVars>>

DbAddUser(key, name, email_address) ==
    /\ Usable
    /\ NextRowId(table) <= MaxId
    /\ table' = add_user(table, key, name, email_address)
    /\ inserted' = InsertedAfterAdd(table')
    /\ call' = [op |-> "add_user", key |-> key, name |-> name,
                email_address |-> email_address]
    /\ ret' = None
    /\ UNCHANGED <<con, schema, parseVars, mainVars>>

DbDelete(id_) ==
    /\ Usable
    /\ table' = delete(table, id_)
    /\ inserted' = InsertedAfterDelete(id_)
    /\ call' = [op |-> "delete", id_ |-> id_]
    /\ ret' = None
    /\ UNCHANGED <<con, schema, parseVars, mainVars>>

DbDeleteByKey(key) ==
    /\ Usable
    /\ table' = delete_by_key(table, key)
    /\ inserted' = InsertedAfterDeleteByKey(key)
    /\ call' = [op |-> "delete_by_key", key |-> key,
                rowcount |-> Cardinality(table) - Cardinality(table')]
    /\ ret' = None
    /\ UNCHANGED <<con, schema, parseVars, mainVars>>

DbGet(id_) ==
    /\ Usable
    /\ call' = [op |-> "get", id_ |-> id_]
    /\ ret' = get(table, id_)
    /\ UNCHANGED <<table, inserted, con, schema, parseVars, mainVars>>

DbGetUserByKey(key) ==
    /\ Usable
    /\ call' = [op |-> "get_user_by_key", key |-> key]
    /\ ret' = get_user_by_key(table, key)
    /\ UNCHANGED <<table, inserted, con, schema, parseVars, mainVars>>

DbGetAllUsers ==
    /\ Usable
    /\ call' = [op |-> "get_all_users"]
    /\ ret' = get_all_users(table)
    /\ UNCHANGED <<table, inserted, con, schema, parseVars, mainVars>>

DbAddAny == \E key \in Keys, p \in People : DbAddUser(key, p[1], p[2])
DbDeleteAny == \E id_ \in 1..MaxId : DbDelete(id_)
DbDeleteByKeyAny == \E key \in Keys : DbDeleteByKey(key)
DbGetAny == \E id_ \in 1..MaxId : DbGet(id_)
DbGetUserByKeyAny == \E key \in Keys : DbGetUserByKey(key)

NextStore ==
    \/ DbNew
    \/ DbConnect
    \/ DbDisconnect
    \/ DbCreateTables
    \/ DbAddAny
    \/ DbDeleteAny
    \/ DbDeleteByKeyAny
    \/ DbGetAny
    \/ DbGetUserByKeyAny
    \/ DbGetAllUsers

SpecStore == Init /\ [][NextStore]_vars

\* ----------------------------------------------- the raw literal parser
Texts == SeqsUpTo(Alphabet, MaxLen)

ChooseText(t) ==
    /\ text' = t
    /\ parsed' = None
    /\ UNCHANGED <<table, inserted, con, schema, storeVars, mainVars>>

Parse ==
    /\ parsed = None
    /\ parsed' = from_semicolon_separated_str(text)
    /\ UNCHANGED <<table, inserted, con, schema, storeVars, mainVars, text>>

ChooseAnyText == \E t \in Texts : ChooseText(t)

NextParse ==
    \/ ChooseAnyText
    \/ Parse

SpecParse == Init /\ [][NextParse]_vars

\* ------------------------------------------------------ the git invokers
\* The argument list commit_as hands to subprocess.run.
commit_cmd_no_args(u, extra) ==
    << Lit("git"), Lit("-c"), Lit("user.name=") \o u.name,
       Lit("-c"), Lit("user.email=") \o u.email_address, Lit("commit") >>

commit_cmd_key(u, extra) ==
    << Lit("git"), Lit("-c"), Lit("user.name=") \o u.key,
       Lit("-c"), Lit("user.email=") \o u.email_address, Lit("commit") >>
    \o extra

commit_cmd(u, extra) ==
    IF Len(extra) = 0
    THEN << Lit("git"), Lit("-c"), Lit("user.name=") \o u.name,
            Lit("-c"), Lit("user.email=") \o u.email_address, Lit("commit") >>
    ELSE << Lit("git"), Lit("-c"), Lit("user.name=") \o u.name,
            Lit("-c"), Lit("user.email=") \o u.email_address, Lit("commit") >>
         \o extra

\* The shell command line set_user hands to subprocess.run.
set_cmd(u) ==
    Lit("git config --global user.name ") \o u.name
    \o Lit("; git config --global user.email ") \o u.email_address

\* User.__str__
user_str(u) ==
    Lit("id: ") \o Lit(ToString(u.id_)) \o Lit(", key: '") \o u.key
    \o Lit("', name: '") \o u.name \o Lit("' email_address: '")
    \o u.email_address \o Lit("'")

\* str(ValueError) as main prints it
error_str(e) ==
    [msg |-> "expect two fields; one for user.name and one for user.email. Found",
     count |-> e.count, tokens |-> e.tokens]

not_found_str(key) ==
    [msg |-> "Cannot find user in the known users database.", key |-> key]

\* ------------------------------------------------------------------- main
CommandLines ==
    {[NoArgs EXCEPT !.subcommand = "commit", !.key = t[1], !.raw_user = t[2],
                    !.unknown_args = x] :
        t \in Targets, x \in SeqsUpTo(ExtraArgs, MaxExtra)}
    \cup {[NoArgs EXCEPT !.subcommand = "set", !.key = t[1], !.raw_user = t[2]] :
        t \in Targets}
    \cup {[NoArgs EXCEPT !.subcommand = "add", !.key = k, !.name = p[1],
                         !.email_address = p[2]] : k \in Keys, p \in People}
    \cup {[NoArgs EXCEPT !.subcommand = "remove", !.key = k] : k \in Keys}
    \cup {[NoArgs EXCEPT !.subcommand = "list"]}
    \cup {NoArgs}

\* A git process ends with status 0 or with a failure status.
ReturnCodes == {0, 1}

\* What the process exits with when main returns or calls sys.exit().
ExitStatusMirrored(returncode) == returncode

ExitStatus(returncode) == 0

\* cli.parse_known_args() and KnownUserDB(args.db)
Invoke(a) ==
    /\ pc \in {"idle", "exited"}
    /\ pc' = "parsed"
    /\ args' = a
    /\ con' = "None"
    /\ user' = None
    /\ storeOps' = <<>>
    /\ cmds' = <<>>
    /\ out' = <<>>
    /\ exit_status' = -1
    /\ UNCHANGED <<table, inserted, schema, storeVars, parseVars>>

MainConnect ==
    /\ pc = "parsed"
    /\ con' = connect(con)
    /\ storeOps' = Append(storeOps, "connect")
    /\ pc' = "connected"
    /\ UNCHANGED <<table, inserted, schema, storeVars, parseVars,
                   args, user, cmds, out, exit_status>>

MainCreateTables ==
    /\ pc = "connected"
    /\ schema' = TRUE
    /\ storeOps' = Append(storeOps, "create_tables")
    /\ pc' = "dispatch"
    /\ UNCHANGED <<table, inserted, con, storeVars, parseVars,
                   args, user, cmds, out, exit_status>>

NeedsUser == args.subcommand \in {"commit", "set"}

ResolveRaw ==
    /\ pc = "dispatch"
    /\ NeedsUser
    /\ args.raw_user
    /\ LET r == from_semicolon_separated_str(args.key)
       IN  IF IsError(r)
           THEN /\ out' = Append(out, error_str(r))
                /\ exit_status' = ExitStatus(0)
                /\ pc' = "exited"
                /\ user' = user
           ELSE /\ user' = r
                /\ pc' = "resolved"
                /\ UNCHANGED <<out, exit_status>>
    /\ UNCHANGED <<table, inserted, con, schema, storeVars, parseVars,
                   args, storeOps, cmds>>

ResolveKey ==
    /\ pc = "dispatch"
    /\ NeedsUser
    /\ ~args.raw_user
    /\ storeOps' = Append(storeOps, "get_user_by_key")
    /\ LET u == get_user_by_key(table, args.key)
       IN  IF u = None
           THEN /\ out' = Append(out, not_found_str(args.key))
                /\ exit_status' = ExitStatus(0)
                /\ pc' = "exited"
                /\ user' = u
           ELSE /\ user' = u
                /\ pc' = "resolved"
                /\ UNCHANGED <<out, exit_status>>
    /\ UNCHANGED <<table, inserted, con, schema, storeVars, parseVars,
                   args, cmds>>

CommitAs(returncode) ==
    /\ pc = "resolved"
    /\ args.subcommand = "commit"
    /\ cmds' = Append(cmds, [argv |-> commit_cmd(user, args.unknown_args),
                            shell |-> FALSE, returncode |-> returncode])
    /\ exit_status' = ExitStatus(returncode)
    /\ pc' = "exited"
    /\ UNCHANGED <<table, inserted, con, schema, storeVars, parseVars,
                   args, user, storeOps, out>>

SetUser(returncode) ==
    /\ pc = "resolved"
    /\ args.subcommand = "set"
    /\ cmds' = Append(cmds, [argv |-> set_cmd(user), shell |-> TRUE,
                            returncode |-> returncode])
    /\ exit_status' = ExitStatus(returncode)
    /\ pc' = "exited"
    /\ UNCHANGED <<table, inserted, con, schema, storeVars, parseVars,
                   args, user, storeOps, out>>

MainAdd ==
    /\ pc = "dispatch"
    /\ args.subcommand = "add"
    /\ NextRowId(table) <= MaxId
    /\ table' = add_user(table, args.key, args.name, args.email_address)
    /\ inserted' = InsertedAfterAdd(table')
    /\ storeOps' = Append(storeOps, "add_user")
    /\ exit_status' = ExitStatus(0)
    /\ pc' = "exited"
    /\ UNCHANGED <<con, schema, storeVars, parseVars, args, user, cmds, out>>

MainRemove ==
    /\ pc = "dispatch"
    /\ args.subcommand = "remove"
    /\ table' = delete_by_key(table, args.key)
    /\ inserted' = InsertedAfterDeleteByKey(args.key)
    /\ storeOps' = Append(storeOps, "delete_by_key")
    /\ exit_status' = ExitStatus(0)
    /\ pc' = "exited"
    /\ UNCHANGED <<con, schema, storeVars, parseVars, args, user, cmds, out>>

MainList ==
    /\ pc = "dispatch"
    /\ args.subcommand = "list"
    /\ storeOps' = Append(storeOps, "get_all_users")
    /\ LET users == get_all_users(table)
       IN  out' = IF Len(users) = 0
                  THEN Append(out, [msg |-> "no user found in the database at",
                                    path |-> "db.path"])
                  ELSE out \o [i \in 1..Len(users) |-> user_str(users[i])]
    /\ exit_status' = ExitStatus(0)
    /\ pc' = "exited"
    /\ UNCHANGED <<table, inserted, con, schema, storeVars, parseVars,
                   args, user, cmds>>

\* No subcommand given: no branch of the dispatch is taken.
MainNone ==
    /\ pc = "dispatch"
    /\ args.subcommand = "None"
    /\ exit_status' = ExitStatus(0)
    /\ pc' = "exited"
    /\ UNCHANGED <<table, inserted, con, schema, storeVars, parseVars,
                   args, user, storeOps, cmds, out>>

InvokeAny == \E a \in CommandLines : Invoke(a)
CommitAsAny == \E returncode \in ReturnCodes : CommitAs(returncode)
SetUserAny == \E returncode \in ReturnCodes : SetUser(returncode)

Next ==
    \/ InvokeAny
    \/ MainConnect
    \/ MainCreateTables
    \/ ResolveRaw
    \/ ResolveKey
    \/ CommitAsAny
    \/ SetUserAny
    \/ MainAdd
    \/ MainRemove
    \/ MainList
    \/ MainNone

Spec == Init /\ [][Next]_vars

\* ------------------------------------------------------------- properties
NumSemis(t) == Cardinality({i \in DOMAIN t : t[i] = ";"})
Found(key) == \E r \in table : r[2] = key
WithKey(key) == SelectSeq(inserted, LAMBDA u : u.key = key)

\* C1: add_user(key, name, email) immediately followed by
\* get_user_by_key(key) returns a record with the name and email just
\* added, in every store state, also one that already holds the key.
C1_RoundTrip ==
    call.op = "add_user" =>
        LET u == get_user_by_key(table, call.key)
        IN  /\ u # None
            /\ u.name = call.name
            /\ u.email_address = call.email_address

\* C2: after delete_by_key(key) no stored record has that key, however many
\* had it: get_user_by_key(key) is None and get_all_users lists none.
C2_DeleteByKeyRemovesAll ==
    call.op = "delete_by_key" =>
        /\ \A r \in table : r[2] # call.key
        /\ get_user_by_key(table, call.key) = None
        /\ \A i \in DOMAIN get_all_users(table) :
               get_all_users(table)[i].key # call.key

C2_Witness ==
    /\ call.op = "delete_by_key"
    /\ call.rowcount >= 2
    /\ table # {}

\* C3: get_user_by_key(key) is the earliest inserted live record with that
\* key, or None when there is none; add_user stores its record beside any
\* that already has the key.
C3_FirstByInsertion ==
    /\ \A key \in Keys :
          get_user_by_key(table, key) =
              IF WithKey(key) = <<>> THEN None ELSE WithKey(key)[1]
    /\ call.op = "get_user_by_key" =>
          ret = IF WithKey(call.key) = <<>> THEN None ELSE WithKey(call.key)[1]
    /\ call.op = "add_user" =>
          /\ Cardinality(table) = Len(inserted)
          /\ \E r \in table :
                /\ r[2] = call.key /\ r[3] = call.name
                /\ r[4] = call.email_address
                /\ from_db_record(r) = inserted[Len(inserted)]

C3_Witness ==
    /\ call.op = "get_user_by_key"
    /\ Len(WithKey(call.key)) >= 2
    /\ WithKey(call.key)[1].name # WithKey(call.key)[2].name
    /\ ret = WithKey(call.key)[1]

\* C4: get_all_users returns exactly the live records, each once with its
\* id, key, name and email, oldest insertion first; none on an empty store.
C4_AllInInsertionOrder ==
    /\ get_all_users(table) = inserted
    /\ call.op = "get_all_users" => ret = inserted
    /\ table = {} => get_all_users(table) = <<>>

C4_Witness ==
    /\ call.op = "get_all_users"
    /\ Len(ret) >= 2
    /\ ret[1].id_ # 1
    /\ ret = inserted

\* C5: a literal with one ';' parses to key = name = the first field and
\* email = the second; with two ';' to key, name, email in that order; with
\* any other number of fields to a field-count error; a record has id 0.
C5_RawLiteral ==
    parsed # None =>
        LET n == NumSemis(text)
        IN  /\ n = 1 =>
                  /\ ~IsError(parsed)
                  /\ parsed.id_ = 0
                  /\ parsed.name = parsed.key
                  /\ NumSemis(parsed.key \o parsed.email_address) = 0
                  /\ parsed.key \o <<";">> \o parsed.email_address = text
            /\ n = 2 =>
                  /\ ~IsError(parsed)
                  /\ parsed.id_ = 0
                  /\ NumSemis(parsed.key \o parsed.name
                              \o parsed.email_address) = 0
                  /\ parsed.key \o <<";">> \o parsed.name \o <<";">>
                        \o parsed.email_address = text
            /\ n \notin {1, 2} =>
                  /\ IsError(parsed)
                  /\ parsed.count = n + 1

C5_Witness ==
    /\ parsed # None
    /\ ~IsError(parsed)
    /\ parsed.key # <<>>
    /\ parsed.name # <<>>
    /\ parsed.name # parsed.key
    /\ parsed.email_address # <<>>

\* C6: commit_as runs exactly one command: git, the user.name override for
\* the name, the user.email override for the email, commit, then the extra
\* arguments unchanged and in order, and nothing after them.
C6_CommitCommand ==
    (pc = "exited" /\ args.subcommand = "commit" /\ user # None) =>
        /\ Len(cmds) = 1
        /\ ~cmds[1].shell
        /\ LET argv == cmds[1].argv
               n == Len(args.unknown_args)
           IN  /\ Len(argv) = 6 + n
               /\ argv[1] = <<"git">>
               /\ argv[2] = <<"-c">>
               /\ argv[3] = <<"user.name=">> \o user.name
               /\ argv[4] = <<"-c">>
               /\ argv[5] = <<"user.email=">> \o user.email_address
               /\ argv[6] = <<"commit">>
               /\ \A i \in 1..n : argv[6 + i] = args.unknown_args[i]

C6_Witness ==
    /\ pc = "exited"
    /\ args.subcommand = "commit"
    /\ Len(args.unknown_args) >= 2
    /\ args.unknown_args[1] # args.unknown_args[2]
    /\ Len(cmds) = 1

\* C7: in every terminal state of main the connection opened by connect()
\* has been closed by disconnect().
C7_ConnectionReleased == pc = "exited" => con = "closed"

\* C8: when the git process of commit or set exits with a non-zero status,
\* the exit status of the tool is non-zero.
C8_ExitStatusPropagated ==
    (pc = "exited" /\ NeedsUser /\ cmds # <<>>
        /\ cmds[Len(cmds)].returncode # 0) => exit_status # 0

BadRawExit ==
    /\ pc = "exited"
    /\ NeedsUser
    /\ args.raw_user
    /\ NumSemis(args.key) \notin {1, 2}

ParseErrorPrinted ==
    /\ Len(out) = 1
    /\ out[1].count = NumSemis(args.key) + 1
    /\ Len(out[1].tokens) = out[1].count

\* C9 as stated: a raw literal with a field count other than 2 or 3 prints
\* the parse error and ends the invocation with no store operation at all
\* (no connect, no schema creation, no lookup, no write) and no command.
C9_NoStoreOperation ==
    BadRawExit =>
        /\ ParseErrorPrinted
        /\ storeOps = <<>>
        /\ cmds = <<>>

\* C9 amended: a raw literal with a field count other than 2 or 3 prints the
\* parse error and ends the invocation having called only connect and
\* create_tables on the store (no lookup, no write), and runs no command.
C9_NoLookupNoWrite ==
    BadRawExit =>
        /\ ParseErrorPrinted
        /\ storeOps = <<"connect", "create_tables">>
        /\ cmds = <<>>
        /\ user = None

C9_Witness ==
    /\ BadRawExit
    /\ out # <<>>
    /\ table # {}

C10_State ==
    /\ cmds # <<>> => (user # None /\ pc = "exited")
    /\ (pc = "exited" /\ NeedsUser /\ ~args.raw_user) =>
          IF ~Found(args.key)
          THEN /\ Len(out) = 1
               /\ out[1].key = args.key
               /\ cmds = <<>>
          ELSE LET u == get_user_by_key(table, args.key)
               IN  /\ Len(cmds) = 1
                   /\ out = <<>>
                   /\ args.subcommand = "commit" =>
                         /\ cmds[1].argv[3] = <<"user.name=">> \o u.name
                         /\ cmds[1].argv[5] =
                               <<"user.email=">> \o u.email_address
                   /\ args.subcommand = "set" =>
                         cmds[1].argv =
                             <<"git config --global user.name ">> \o u.name
                             \o <<"; git config --global user.email ">>
                             \o u.email_address

C10_Step ==
    (NeedsUser /\ pc \in {"parsed", "connected", "dispatch", "resolved"})
        => table' = table

\* C10: commit and set run git only once a user is resolved; in key mode an
\* unknown key prints the not-found error naming it and exits with no command
\* run and the stored records unchanged, and a known key runs the command
\* with the name and email of the record get_user_by_key returns.
C10_ResolveBeforeGit == []C10_State /\ [][C10_Step]_vars

C10_Witness ==
    /\ pc = "exited"
    /\ NeedsUser
    /\ ~args.raw_user
    /\ ~Found(args.key)
    /\ table # {}
    /\ out # <<>>

====
